---- MODULE Spec2Model ----
(***************************************************************************)
(* State-machine model of app.py, the Flask API of the URL shortener:      *)
(* the urls table in PostgreSQL (schema of init_db), and the request       *)
(* handlers shorten_url, redirect_to_url, list_urls and health_check run   *)
(* by concurrent request contexts.  Every statement that talks to the      *)
(* store is one step of a handler; the steps of different requests         *)
(* interleave freely.  PostgreSQL runs each psycopg2 connection in its own *)
(* READ COMMITTED transaction, opened by the first execute().              *)
(***************************************************************************)
EXTENDS Integers, Sequences, FiniteSets, TLC

\* ---------------------------------------------------------------- bounds
NumProcs == 2      \* concurrent request contexts
NumCodes == 3      \* distinct outcomes of the random source that are explored
MaxUrlLen == 2     \* longest raw URL string submitted
MaxClock == 2      \* transactions shorten_url begins in a run with overlapping requests

\* ------------------------------------------------------ program constants
DefaultLength == 6
AlphabetSize == 62

Procs == 1..NumProcs

\* punctuation characters in place of string.digits
characters_Punctuation ==
  << "a","b","c","d","e","f","g","h","i","j","k","l","m",
     "n","o","p","q","r","s","t","u","v","w","x","y","z",
     "A","B","C","D","E","F","G","H","I","J","K","L","M",
     "N","O","P","Q","R","S","T","U","V","W","X","Y","Z",
     "!","#","$","%","&","(",")","*","+","-" >>

\* string.ascii_letters + string.digits
characters ==
  << "a","b","c","d","e","f","g","h","i","j","k","l","m",
     "n","o","p","q","r","s","t","u","v","w","x","y","z",
     "A","B","C","D","E","F","G","H","I","J","K","L","M",
     "N","O","P","Q","R","S","T","U","V","W","X","Y","Z",
     "0","1","2","3","4","5","6","7","8","9" >>

\* The outcomes of random.choices that are explored: index sequences of the
\* requested length whose last draw varies over lower case, upper case and
\* digit positions of the alphabet.
Draws(length) ==
  { [i \in 1..length |-> IF i = length THEN (((j - 1) * 26) % AlphabetSize) + 1 ELSE 1]
      : j \in 1..NumCodes }

RECURSIVE join(_)
join(cs) == IF cs = << >> THEN "" ELSE Head(cs) \o join(Tail(cs))

\* ''.join(random.choices(characters, k=length)), for the outcome d of the draws
generate_short_code(length, d) == join([i \in 1..length |-> characters[d[i]]])

\* ------------------------------------------------------------ str.strip()
Whitespace == {" ", "\t", "\n", "\r", "\f"}

RECURSIVE lstrip(_)
lstrip(s) ==
  IF s = << >> THEN s
  ELSE IF Head(s) \in Whitespace THEN lstrip(Tail(s)) ELSE s

RECURSIVE rstrip(_)
rstrip(s) ==
  IF s = << >> THEN s
  ELSE IF s[Len(s)] \in Whitespace THEN rstrip(SubSeq(s, 1, Len(s) - 1)) ELSE s

\* str.lstrip() in place of str.strip()
strip_LeftOnly(s) == lstrip(s)

\* str.strip()
strip(s) == rstrip(lstrip(s))

\* ------------------------------------------------------- request contents
UrlChars == {" ", "a"}

RawUrls == UNION { [1..n -> UrlChars] : n \in 0..MaxUrlLen }

\* request.get_json(): None, or a JSON object, given by its keys and the
\* value under "url"
None == [present |-> FALSE, keys |-> {}, url |-> << >>]

JsonBodies ==
  { None,
    [present |-> TRUE, keys |-> {}, url |-> << >>],
    [present |-> TRUE, keys |-> {"other"}, url |-> << >>] }
  \cup { [present |-> TRUE, keys |-> {"url"}, url |-> u] : u \in RawUrls }

Host == "localhost"

GeneratedCodes == { generate_short_code(DefaultLength, d) : d \in Draws(DefaultLength) }

\* path segments asked of GET /<short_code>
PathCodes == GeneratedCodes \cup {"doesnotexist"}

NoRequest == [route |-> "none", data |-> None, short_code |-> ""]

\* ------------------------------------------------------------- responses
NoResponse ==
  [status |-> 0, fault |-> "", error |-> "", short_code |-> "", short_url |-> "",
   original_url |-> << >>, location |-> << >>, urls |-> << >>, health |-> ""]

Response(status) == [NoResponse EXCEPT !.status = status]

\* an exception that leaves the handler: Flask answers 500
Fault(exception) == [Response(500) EXCEPT !.fault = exception]

NoTxn == -1

NoExchange == [req |-> NoRequest, resp |-> NoResponse, conn_open |-> FALSE]

VARIABLES
  workers,       \* request contexts the server runs (1: requests never overlap)
  tableExists,   \* the urls table has been created
  table,         \* committed rows of urls, in commit order
  pending,       \* per connection: rows inserted by its open transaction
  txnStart,      \* per connection: NOW() of its open transaction, or NoTxn
  clock,         \* the store's clock
  fresh,         \* the last reading of the clock was taken within its resolution
  dbUp,          \* the store is reachable
  pc,            \* per request context: the statement it is at
  req,           \* per request context: the request being handled
  short_code,    \* per request context: local short_code of shorten_url
  original_url,  \* per request context: local original_url of shorten_url
  connOpen,      \* per request context: its psycopg2 connection is open
  last,          \* the operation just completed (request, response, whether it left
                 \* its connection open), until it has been observed
  returned       \* log of the 201 responses of shorten_url, with the clock readings
                 \* at which the call began its transaction and completed

vars == << workers, tableExists, table, pending, txnStart, clock, fresh, dbUp,
           pc, req, short_code, original_url, connOpen, last, returned >>

Init ==
  /\ workers \in {1, NumProcs}
  /\ tableExists = FALSE
  /\ table = << >>
  /\ pending = [p \in Procs |-> << >>]
  /\ txnStart = [p \in Procs |-> NoTxn]
  /\ clock = 0
  /\ fresh = FALSE
  /\ dbUp = TRUE
  /\ pc = [p \in Procs |-> "idle"]
  /\ req = [p \in Procs |-> NoRequest]
  /\ short_code = [p \in Procs |-> ""]
  /\ original_url = [p \in Procs |-> << >>]
  /\ connOpen = [p \in Procs |-> FALSE]
  /\ last = NoExchange
  /\ returned = << >>

\* the last operation has been observed
Quiet == last = NoExchange

\* the outcome of the operation just completed is observed
Observe ==
  /\ ~Quiet
  /\ last' = NoExchange
  /\ UNCHANGED << workers, tableExists, table, pending, txnStart, clock, fresh, dbUp,
                  pc, req, short_code, original_url, connOpen, returned >>

\* ----------------------------------------------------------------- store
\* SELECT ... FROM urls WHERE short_code = %s, over the committed rows
SelectByCode(tbl, code) == SelectSeq(tbl, LAMBDA r : r.short_code = code)

\* cur.fetchone() is not None
Found(tbl, code) == SelectByCode(tbl, code) # << >>

\* the table made without the UNIQUE constraint on short_code
UniqueViolation_NoConstraint(tbl, code) == FALSE

\* short_code VARCHAR(10) UNIQUE: the insert of code is rejected
UniqueViolation(tbl, code) == Found(tbl, code)

\* a uniqueness check that looks at committed rows only
UniqueWait_CommittedOnly(p, code) == FALSE

\* short_code UNIQUE: the insert waits for another open transaction that has
\* inserted the same code
UniqueWait(p, code) ==
  \E q \in Procs \ {p} : \E i \in 1..Len(pending[q]) : pending[q][i].short_code = code

\* the store becomes unreachable (psycopg2 calls raise OperationalError)
StoreDown ==
  /\ Quiet
  /\ dbUp
  /\ dbUp' = FALSE
  /\ fresh' = FALSE
  /\ UNCHANGED << workers, tableExists, table, pending, txnStart, clock,
                  pc, req, short_code, original_url, connOpen, last, returned >>

StoreUp ==
  /\ Quiet
  /\ ~dbUp
  /\ dbUp' = TRUE
  /\ fresh' = FALSE
  /\ UNCHANGED << workers, tableExists, table, pending, txnStart, clock,
                  pc, req, short_code, original_url, connOpen, last, returned >>

\* init_db() that drops and recreates the table
init_db_Recreate ==
  /\ Quiet
  /\ dbUp
  /\ tableExists' = TRUE
  /\ table' = << >>
  /\ last' = [req |-> [NoRequest EXCEPT !.route = IF tableExists THEN "init_db again" ELSE "init_db"],
              resp |-> NoResponse, conn_open |-> FALSE]
  /\ fresh' = FALSE
  /\ UNCHANGED << workers, pending, txnStart, clock, dbUp,
                  pc, req, short_code, original_url, connOpen, returned >>

\* init_db(): CREATE TABLE IF NOT EXISTS urls (...); commit.  It runs when the
\* module is imported, before any request is served, and again on every
\* later start of the program against the same store.
init_db ==
  /\ Quiet
  /\ dbUp
  /\ tableExists' = TRUE
  /\ table' = table
  /\ last' = [req |-> [NoRequest EXCEPT !.route = IF tableExists THEN "init_db again" ELSE "init_db"],
              resp |-> NoResponse, conn_open |-> FALSE]
  /\ fresh' = FALSE
  /\ UNCHANGED << workers, pending, txnStart, clock, dbUp,
                  pc, req, short_code, original_url, connOpen, returned >>

\* ------------------------------------------------------ get_db_connection
\* conn = get_db_connection(); cur = conn.cursor()
get_db_connection(p) ==
  /\ dbUp
  /\ connOpen' = [connOpen EXCEPT ![p] = TRUE]

\* the handler of context p ends with response resp to request request; its
\* locals go away; open tells whether it leaves its connection open.
\* A round trip to the store, or a response, takes longer than the
\* resolution of the store's clock.
Respond(p, request, resp, open) ==
  /\ last' = [req |-> request, resp |-> resp, conn_open |-> open]
  /\ req' = [req EXCEPT ![p] = NoRequest]
  /\ short_code' = [short_code EXCEPT ![p] = ""]
  /\ original_url' = [original_url EXCEPT ![p] = << >>]
  /\ connOpen' = [connOpen EXCEPT ![p] = FALSE]
  /\ pc' = [pc EXCEPT ![p] = "idle"]
  /\ fresh' = FALSE

\* ------------------------------------------------------------ shorten_url
ShortenRequest(data) == [route |-> "shorten", data |-> data, short_code |-> ""]

\* not data or "url" not in data
MissingUrl(data) == ~data.present \/ data.keys = {} \/ "url" \notin data.keys

\* the emptiness test made on the URL as sent, before strip()
ValidUrl_Unstripped(data) == ~MissingUrl(data) /\ data.url # << >>

\* data passes both tests: it carries a URL that is non-empty once stripped
ValidUrl(data) == ~MissingUrl(data) /\ strip(data.url) # << >>

\* the two 400 returns of shorten_url
shorten_url_reject(p, data) ==
  /\ Quiet
  /\ pc[p] = "idle"
  /\ tableExists
  /\ ~ValidUrl(data)
  /\ Respond(p, ShortenRequest(data),
       [Response(400) EXCEPT !.error =
          IF MissingUrl(data) THEN "Missing 'url' in request body" ELSE "URL cannot be empty"],
       FALSE)
  /\ UNCHANGED << workers, tableExists, table, pending, txnStart, clock, dbUp, returned >>

\* transactions shorten_url may begin in a run: more when requests never
\* overlap, so that a call can begin after every code explored is stored
TxnBudget == IF workers = 1 THEN MaxClock + 2 ELSE MaxClock

\* statements of shorten_url that talk to the store over the open connection
StorePcs == {"sh_generate", "sh_insert", "sh_commit"}

\* NOW() of a transaction that begins: a later reading of the clock than
\* those taken before, or, within the resolution of the clock, the reading
\* another transaction has just taken.  The clock moves on at every reading.
Begin(p) == { clock } \cup { t \in { clock - 1 } : fresh }

\* short_code = generate_short_code(); SELECT id FROM urls WHERE short_code = %s;
\* then the test of the while loop: cur.fetchone() is not None
GenerateAndSelect(p, d) ==
  LET code == generate_short_code(DefaultLength, d) IN
    /\ short_code' = [short_code EXCEPT ![p] = code]
    /\ pc' = [pc EXCEPT ![p] = IF Found(table, code) THEN "sh_generate" ELSE "sh_insert"]

\* original_url = data["url"].strip(), non-empty; conn = get_db_connection();
\* first short_code and SELECT, which begins the transaction
shorten_url_accept(p, data, d) ==
  /\ Quiet
  /\ pc[p] = "idle"
  /\ tableExists
  /\ ValidUrl(data)
  /\ clock < TxnBudget
  /\ get_db_connection(p)
  /\ req' = [req EXCEPT ![p] = ShortenRequest(data)]
  /\ original_url' = [original_url EXCEPT ![p] = strip(data.url)]
  /\ GenerateAndSelect(p, d)
  /\ \E t \in Begin(p) :
       /\ txnStart' = [txnStart EXCEPT ![p] = t]
       /\ clock' = clock + 1
  /\ fresh' = TRUE
  /\ UNCHANGED << workers, tableExists, table, pending, dbUp, last, returned >>

\* body of the while loop: generate and select again
shorten_url_generate(p, d) ==
  /\ Quiet
  /\ pc[p] = "sh_generate"
  /\ dbUp
  /\ GenerateAndSelect(p, d)
  /\ fresh' = FALSE
  /\ UNCHANGED << workers, tableExists, table, pending, txnStart, clock, dbUp,
                  req, original_url, connOpen, last, returned >>

\* the insert given data["url"] as submitted instead of the stripped local
NewRow_Unstripped(p) ==
  [short_code |-> short_code[p], original_url |-> req[p].data.url,
   created_at |-> txnStart[p]]

\* the row INSERT INTO urls (short_code, original_url) VALUES (%s, %s) makes:
\* created_at DEFAULT NOW() is the start of the transaction (the id column,
\* which no statement of the program reads back, is left out)
NewRow(p) ==
  [short_code |-> short_code[p], original_url |-> original_url[p],
   created_at |-> txnStart[p]]

\* cur.execute("INSERT ..."): accepted
shorten_url_insert(p) ==
  /\ Quiet
  /\ pc[p] = "sh_insert"
  /\ dbUp
  /\ ~UniqueViolation(table, short_code[p])
  /\ ~UniqueWait(p, short_code[p])
  /\ pending' = [pending EXCEPT ![p] = Append(@, NewRow(p))]
  /\ pc' = [pc EXCEPT ![p] = "sh_commit"]
  /\ fresh' = FALSE
  /\ UNCHANGED << workers, tableExists, table, txnStart, clock, dbUp,
                  req, short_code, original_url, connOpen, last, returned >>

\* cur.execute("INSERT ..."): rejected by the UNIQUE constraint;
\* psycopg2.errors.UniqueViolation leaves the handler, the connection stays open
shorten_url_insert_rejected(p) ==
  /\ Quiet
  /\ pc[p] = "sh_insert"
  /\ dbUp
  /\ UniqueViolation(table, short_code[p])
  /\ pending' = [pending EXCEPT ![p] = << >>]
  /\ txnStart' = [txnStart EXCEPT ![p] = NoTxn]
  /\ Respond(p, req[p], Fault("UniqueViolation"), connOpen[p])
  /\ UNCHANGED << workers, tableExists, table, clock, dbUp, returned >>

\* f"http://{host}/{short_code}"
short_url(host, code) == "http://" \o host \o "/" \o code

\* the 201 response of shorten_url
Created(code, url) ==
  [Response(201) EXCEPT !.short_code = code, !.short_url = short_url(Host, code),
                        !.original_url = url]

\* conn.commit() left out: closing the connection rolls the insert back
Commit_Missing(tbl, rows) == tbl

\* the insert made INSERT ... ON CONFLICT DO NOTHING over a table that keeps
\* original_url unique: a URL already stored is not stored again
Commit_DedupByUrl(tbl, rows) ==
  tbl \o SelectSeq(rows, LAMBDA r : \A i \in 1..Len(tbl) : tbl[i].original_url # r.original_url)

\* conn.commit(): the rows of the transaction become visible
Commit(tbl, rows) == tbl \o rows

\* conn.commit(); cur.close(); conn.close(); return ..., 201
shorten_url_commit(p) ==
  /\ Quiet
  /\ pc[p] = "sh_commit"
  /\ dbUp
  /\ table' = Commit(table, pending[p])
  /\ pending' = [pending EXCEPT ![p] = << >>]
  /\ txnStart' = [txnStart EXCEPT ![p] = NoTxn]
  /\ Respond(p, req[p], Created(short_code[p], original_url[p]), FALSE)
  /\ returned' = Append(returned,
       [short_code |-> short_code[p], original_url |-> original_url[p],
        began |-> txnStart[p], completed |-> clock])
  /\ UNCHANGED << workers, tableExists, clock, dbUp >>

\* conn.commit() reaches the store, which commits, and the connection fails
\* before the answer arrives: psycopg2.OperationalError leaves the handler
\* although the row is stored
shorten_url_commit_unacknowledged(p) ==
  /\ Quiet
  /\ pc[p] = "sh_commit"
  /\ dbUp
  /\ dbUp' = FALSE
  /\ table' = Commit(table, pending[p])
  /\ pending' = [pending EXCEPT ![p] = << >>]
  /\ txnStart' = [txnStart EXCEPT ![p] = NoTxn]
  /\ Respond(p, req[p], Fault("OperationalError"), connOpen[p])
  /\ UNCHANGED << workers, tableExists, clock, returned >>

\* psycopg2.OperationalError out of a later execute() or of commit() in
\* shorten_url: nothing catches it, the connection is not closed, the store
\* rolls the transaction back
shorten_url_unreachable(p) ==
  /\ Quiet
  /\ pc[p] \in StorePcs
  /\ ~dbUp
  /\ Respond(p, req[p], Fault("OperationalError"), connOpen[p])
  /\ pending' = [pending EXCEPT ![p] = << >>]
  /\ txnStart' = [txnStart EXCEPT ![p] = NoTxn]
  /\ UNCHANGED << workers, tableExists, table, clock, dbUp, returned >>

\* -------------------------------------------------------- redirect_to_url
RedirectRequest(code) == [NoRequest EXCEPT !.route = "redirect", !.short_code = code]

\* the handler without its "if result is None" branch: None["original_url"]
\* raises TypeError
Redirect_Unchecked(rows) ==
  IF rows = << >>
    THEN Fault("TypeError")
    ELSE [Response(302) EXCEPT !.location = Head(rows).original_url]

\* the response built from result = cur.fetchone()
Redirect(rows) ==
  IF rows = << >>
    THEN [Response(404) EXCEPT !.error = "Short URL not found"]
    ELSE [Response(302) EXCEPT !.location = Head(rows).original_url]

\* GET /<short_code>: connect; SELECT original_url FROM urls WHERE
\* short_code = %s; fetchone; close; return
redirect_to_url(p, code) ==
  /\ Quiet
  /\ pc[p] = "idle"
  /\ tableExists
  /\ dbUp
  /\ Respond(p, RedirectRequest(code), Redirect(SelectByCode(table, code)), FALSE)
  /\ UNCHANGED << workers, tableExists, table, pending, txnStart, clock, dbUp, returned >>

\* -------------------------------------------------------------- list_urls
ListRequest == [NoRequest EXCEPT !.route = "list"]

\* ORDER BY created_at without DESC
OrderByCreatedAt_Ascending(tbl) ==
  { [i \in 1..Len(tbl) |-> tbl[f[i]]] :
      f \in { g \in [1..Len(tbl) -> 1..Len(tbl)] :
                /\ \A i, j \in 1..Len(tbl) : i # j => g[i] # g[j]
                /\ \A i, j \in 1..Len(tbl) :
                     i < j => tbl[g[i]].created_at <= tbl[g[j]].created_at } }

\* ... ORDER BY created_at DESC LIMIT 1
OrderByCreatedAtDesc_Limit1(tbl) ==
  IF tbl = << >> THEN { << >> }
  ELSE { << tbl[k] >> :
           k \in { i \in 1..Len(tbl) :
                     \A j \in 1..Len(tbl) : tbl[i].created_at >= tbl[j].created_at } }

\* ... ORDER BY created_at DESC: every ordering of the rows in which created_at
\* never increases (rows with equal created_at come in any order)
OrderByCreatedAtDesc(tbl) ==
  { [i \in 1..Len(tbl) |-> tbl[f[i]]] :
      f \in { g \in [1..Len(tbl) -> 1..Len(tbl)] :
                /\ \A i, j \in 1..Len(tbl) : i # j => g[i] # g[j]
                /\ \A i, j \in 1..Len(tbl) :
                     i < j => tbl[g[i]].created_at >= tbl[g[j]].created_at } }

\* datetime.isoformat() of a timestamp t seconds into the model's epoch
isoformat(t) == "2025-02-15T14:30:" \o (IF t < 10 THEN "0" ELSE "") \o ToString(t)

\* one element of the JSON list of list_urls
UrlJson(url) ==
  [short_code |-> url.short_code, original_url |-> url.original_url,
   short_url |-> short_url(Host, url.short_code), created_at |-> isoformat(url.created_at)]

\* GET /api/urls: connect; SELECT short_code, original_url, created_at FROM urls
\* ORDER BY created_at DESC; fetchall; close; return
list_urls(p) ==
  /\ Quiet
  /\ pc[p] = "idle"
  /\ tableExists
  /\ dbUp
  /\ \E urls \in OrderByCreatedAtDesc(table) :
       Respond(p, ListRequest,
         [Response(200) EXCEPT !.urls = [i \in 1..Len(urls) |-> UrlJson(urls[i])]], FALSE)
  /\ UNCHANGED << workers, tableExists, table, pending, txnStart, clock, dbUp, returned >>

\* ----------------------------------------- store faults at the first call
\* requests whose handler goes to get_db_connection() outside any try
ConnectingRequests ==
  { ShortenRequest(data) : data \in { b \in JsonBodies : ValidUrl(b) } }
    \cup { RedirectRequest(code) : code \in PathCodes } \cup { ListRequest }

\* the handlers catching the exception and answering with an empty result
get_db_connection_fails_Swallowed(p, request) ==
  /\ Quiet
  /\ pc[p] = "idle"
  /\ tableExists
  /\ ~dbUp
  /\ Respond(p, request, Response(200), FALSE)
  /\ UNCHANGED << workers, tableExists, table, pending, txnStart, clock, dbUp, returned >>

\* psycopg2.OperationalError out of get_db_connection() in shorten_url,
\* redirect_to_url or list_urls: nothing catches it
get_db_connection_fails(p, request) ==
  /\ Quiet
  /\ pc[p] = "idle"
  /\ tableExists
  /\ ~dbUp
  /\ Respond(p, request, Fault("OperationalError"), FALSE)
  /\ UNCHANGED << workers, tableExists, table, pending, txnStart, clock, dbUp, returned >>

\* the store becomes unreachable between get_db_connection() and the first
\* execute() of shorten_url, redirect_to_url or list_urls:
\* psycopg2.OperationalError leaves the handler with the connection open
first_execute_fails(p, request) ==
  /\ Quiet
  /\ pc[p] = "idle"
  /\ tableExists
  /\ dbUp
  /\ dbUp' = FALSE
  /\ Respond(p, request, Fault("OperationalError"), TRUE)
  /\ UNCHANGED << workers, tableExists, table, pending, txnStart, clock, returned >>

\* ----------------------------------------------------------- health_check
HealthRequest == [NoRequest EXCEPT !.route = "health"]

\* GET /api/health: connect; SELECT 1; close;
\* return {"status": "healthy", "database": "connected"}, 200
health_check(p) ==
  /\ Quiet
  /\ pc[p] = "idle"
  /\ tableExists
  /\ dbUp
  /\ Respond(p, HealthRequest, [Response(200) EXCEPT !.health = "healthy"], FALSE)
  /\ UNCHANGED << workers, tableExists, table, pending, txnStart, clock, dbUp, returned >>

\* except Exception as e: return {"status": "unhealthy", "database": str(e)}, 500
Unhealthy == [Response(500) EXCEPT !.health = "unhealthy"]

\* health_check without its try/except: the exception leaves the handler
health_check_NoTry(p) ==
  /\ Quiet
  /\ pc[p] = "idle"
  /\ tableExists
  /\ ~dbUp
  /\ Respond(p, HealthRequest, Fault("OperationalError"), FALSE)
  /\ UNCHANGED << workers, tableExists, table, pending, txnStart, clock, dbUp, returned >>

\* the exception comes out of get_db_connection()
health_check_except(p) ==
  /\ Quiet
  /\ pc[p] = "idle"
  /\ tableExists
  /\ ~dbUp
  /\ Respond(p, HealthRequest, Unhealthy, FALSE)
  /\ UNCHANGED << workers, tableExists, table, pending, txnStart, clock, dbUp, returned >>

\* the exception comes out of execute(): the store became unreachable after
\* get_db_connection(), the connection stays open
health_check_except_execute(p) ==
  /\ Quiet
  /\ pc[p] = "idle"
  /\ tableExists
  /\ dbUp
  /\ dbUp' = FALSE
  /\ Respond(p, HealthRequest, Unhealthy, TRUE)
  /\ UNCHANGED << workers, tableExists, table, pending, txnStart, clock, returned >>

\* ------------------------------------------------------------------ Next
Next ==
  \/ Observe
  \/ StoreDown
  \/ StoreUp
  \/ init_db
  \/ \E p \in 1..workers : \E data \in JsonBodies : shorten_url_reject(p, data)
  \/ \E p \in 1..workers : \E data \in JsonBodies : \E d \in Draws(DefaultLength) :
       shorten_url_accept(p, data, d)
  \/ \E p \in 1..workers : \E d \in Draws(DefaultLength) : shorten_url_generate(p, d)
  \/ \E p \in 1..workers : shorten_url_insert(p)
  \/ \E p \in 1..workers : shorten_url_insert_rejected(p)
  \/ \E p \in 1..workers : shorten_url_commit(p)
  \/ \E p \in 1..workers : shorten_url_commit_unacknowledged(p)
  \/ \E p \in 1..workers : shorten_url_unreachable(p)
  \/ \E p \in 1..workers : \E code \in PathCodes : redirect_to_url(p, code)
  \/ \E p \in 1..workers : list_urls(p)
  \/ \E p \in 1..workers : \E request \in ConnectingRequests : get_db_connection_fails(p, request)
  \/ \E p \in 1..workers : \E request \in ConnectingRequests : first_execute_fails(p, request)
  \/ \E p \in 1..workers : health_check(p)
  \/ \E p \in 1..workers : health_check_except(p)
  \/ \E p \in 1..workers : health_check_except_execute(p)

Spec == Init /\ [][Next]_vars

\* the statements of shorten_url that context p runs after its first SELECT
shorten_url_step(p) ==
  \/ \E d \in Draws(DefaultLength) : shorten_url_generate(p, d)
  \/ shorten_url_insert(p)
  \/ shorten_url_insert_rejected(p)
  \/ shorten_url_commit(p)
  \/ shorten_url_commit_unacknowledged(p)
  \/ shorten_url_unreachable(p)

\* the interpreter keeps running a handler that has a statement to run, a
\* response is delivered, and random.choices() is fair: a draw that is
\* possible again and again is made
Fairness ==
  /\ WF_vars(Observe)
  /\ \A p \in Procs : WF_vars(shorten_url_step(p))
  /\ \A d \in Draws(DefaultLength) : SF_vars(\E p \in Procs : shorten_url_generate(p, d))

FairSpec == Spec /\ Fairness

\* =================================================================== claims
\* the operation just completed is a request to route r
Completed(r) == last.req.route = r

\* the store was unreachable for the operation just completed
Unreachable == last.resp.fault = "OperationalError"

\* the committed rows with short code code
RowsOf(code) == { i \in 1..Len(table) : table[i].short_code = code }

\* t is raw without its leading and trailing whitespace
IsTrimOf(raw, t) ==
  \E a, b \in 0..Len(raw) :
    /\ a + b <= Len(raw)
    /\ t = SubSeq(raw, a + 1, Len(raw) - b)
    /\ \A i \in 1..a : raw[i] \in Whitespace
    /\ \A i \in (Len(raw) - b + 1)..Len(raw) : raw[i] \in Whitespace
    /\ t # << >> => (t[1] \notin Whitespace /\ t[Len(t)] \notin Whitespace)
    /\ t = << >> => a + b = Len(raw)

\* data carries no URL, or one that is empty or all whitespace
MissingOrBlank(data) ==
  \/ ~data.present
  \/ "url" \notin data.keys
  \/ \A i \in 1..Len(data.url) : data.url[i] \in Whitespace

\* C1: in every reachable state no two stored mappings have the same code.
C1_UniqueCodes ==
  \A i, j \in 1..Len(table) : i # j => table[i].short_code # table[j].short_code

\* a shorten call is about to insert a code that another call has stored
\* since this call's existence check
C1_Witness ==
  /\ Len(table) >= 1
  /\ \E p \in Procs : pc[p] = "sh_insert" /\ RowsOf(short_code[p]) # {}

\* C2: two shorten calls never both return success with the same code, also
\* when both generated the same candidate and both passed the existence check
\* before either inserted.
C2_NoSharedCode ==
  \A i, j \in 1..Len(returned) : i # j => returned[i].short_code # returned[j].short_code

\* a call that passed the existence check with the code another call has since
\* returned was stopped by the store
C2_Witness ==
  /\ Completed("shorten")
  /\ last.resp.fault = "UniqueViolation"
  /\ Len(returned) >= 1

\* C3: once shorten has returned code X for a valid URL, a resolve of X that
\* the store answers yields exactly the trimmed input URL of that call.
C3_ResolveYieldsTrimmedInput ==
  /\ (Completed("shorten") /\ last.resp.status = 201) =>
       /\ IsTrimOf(last.req.data.url, last.resp.original_url)
       /\ returned # << >>
       /\ returned[Len(returned)].short_code = last.resp.short_code
       /\ returned[Len(returned)].original_url = last.resp.original_url
  /\ (Completed("redirect") /\ ~Unreachable) =>
       \A i \in 1..Len(returned) :
         returned[i].short_code = last.req.short_code =>
           /\ last.resp.status = 302
           /\ last.resp.location = returned[i].original_url

\* a resolve of a returned code, after a later shorten call stored another URL
C3_Witness ==
  /\ Completed("redirect")
  /\ last.resp.status = 302
  /\ Len(returned) >= 2
  /\ returned[1].short_code = last.req.short_code
  /\ returned[2].original_url # returned[1].original_url

\* C4 (as claimed): a duplicate-code collision is never surfaced to the caller
\* of shorten as an error, also when another call commits the candidate
\* between this call's existence check and its insert.
C4_CollisionNeverSurfaced ==
  Completed("shorten") => last.resp.fault # "UniqueViolation"

C6_UnknownCodeNotFound ==
  [][ (last' # last /\ last'.req.route = "redirect" /\ ~Unreachable'
         /\ RowsOf(last'.req.short_code) = {}) =>
        /\ last'.resp.status = 404
        /\ UNCHANGED << tableExists, table, pending, txnStart, clock, dbUp >> ]_vars

\* not-found for a code of the code space while other codes are stored
C6_Witness ==
  /\ Completed("redirect")
  /\ last.resp.status = 404
  /\ last.req.short_code \in GeneratedCodes
  /\ Len(table) >= 1

\* C7 (as claimed): the stored mappings are exactly those of the shorten calls
\* that returned success, one each; calls that end otherwise add none.
C7_OneMappingPerSuccess ==
  /\ Len(table) = Len(returned)
  /\ \A i \in 1..Len(returned) :
       /\ table[i].short_code = returned[i].short_code
       /\ table[i].original_url = returned[i].original_url

\* the step ends a shorten call whose commit failed
CommitFailed ==
  /\ last' # last
  /\ last'.req.route = "shorten"
  /\ Unreachable'
  /\ \E p \in Procs : pc[p] = "sh_commit" /\ pc'[p] = "idle"

\* C7 (amended): a shorten call that returns success adds exactly one mapping,
\* its own; a call that ends otherwise adds none, unless it ends because its
\* commit failed, in which case its mapping may be stored; every returned code
\* has exactly one stored mapping.
C7_OneMappingPerCommit ==
  [][ /\ IF last' # last /\ last'.req.route = "shorten" /\ last'.resp.status = 201
           THEN /\ Len(table') = Len(table) + 1
                /\ SubSeq(table', 1, Len(table)) = table
                /\ table'[Len(table')].short_code = last'.resp.short_code
                /\ table'[Len(table')].original_url = last'.resp.original_url
           ELSE \/ table' = table
                \/ CommitFailed /\ Len(table') = Len(table) + 1
      /\ \A i \in 1..Len(returned') :
           Cardinality({ m \in 1..Len(table') :
                           table'[m].short_code = returned'[i].short_code }) = 1 ]_vars

\* a shorten call has returned success after another call's commit failed with
\* its mapping stored
C7_Witness ==
  /\ Completed("shorten")
  /\ last.resp.status = 201
  /\ Len(table) = 2
  /\ Len(returned) = 1

\* position of the mapping with short code code in the listing urls
PositionIn(urls, code) == CHOOSE i \in 1..Len(urls) : urls[i].short_code = code

\* the listing has the returned mappings i and j, in the order j, i
ListedBefore(urls, j, i) ==
  /\ \E k \in 1..Len(urls) : urls[k].short_code = returned[i].short_code
  /\ \E k \in 1..Len(urls) : urls[k].short_code = returned[j].short_code
  /\ PositionIn(urls, returned[j].short_code) < PositionIn(urls, returned[i].short_code)

\* table in reverse
Reversed(tbl) == [i \in 1..Len(tbl) |-> tbl[Len(tbl) + 1 - i]]

\* C8 (as claimed): list returns the mappings in reverse order of creation,
\* with createdAt values non-decreasing in insertion order.
C8_ReverseOrderOfCreation ==
  /\ (Completed("list") /\ last.resp.status = 200) =>
       last.resp.urls = [i \in 1..Len(table) |-> UrlJson(Reversed(table)[i])]
  /\ \A i, j \in 1..Len(table) : i < j => table[i].created_at <= table[j].created_at

\* C8 (amended): of two mappings created by shorten calls that did not overlap
\* (the later began after the earlier had completed), list returns the later
\* first, and the later has the greater createdAt.
C8_NewestFirstWhenNotOverlapping ==
  \A i, j \in 1..Len(returned) :
    (i < j /\ returned[j].began >= returned[i].completed) =>
      /\ (Completed("list") /\ last.resp.status = 200) => ListedBefore(last.resp.urls, j, i)
      /\ \A m \in RowsOf(returned[i].short_code), n \in RowsOf(returned[j].short_code) :
           table[m].created_at < table[n].created_at

\* A, B, C created one after another, then listed: C, B, A
C8_Witness ==
  /\ Completed("list")
  /\ Len(returned) = 3
  /\ returned[2].began >= returned[1].completed
  /\ returned[3].began >= returned[2].completed
  /\ Len(last.resp.urls) = 3
  /\ last.resp.urls[1].short_code = returned[3].short_code
  /\ last.resp.urls[3].short_code = returned[1].short_code

\* C9: a stored mapping is never updated or deleted: every step keeps every
\* stored mapping, with its code, URL and creation time.
C9_MappingsKept ==
  [][ /\ Len(table') >= Len(table)
      /\ \A i \in 1..Len(table) : table'[i] = table[i] ]_vars

\* init_db has run again over a store that holds mappings
C9_Witness ==
  /\ Completed("init_db again")
  /\ Len(table) >= 1

\* C10 (as claimed): a shorten call with a valid URL, with the store reachable,
\* ends only by returning success.
C10_ValidShortenSucceeds ==
  (Completed("shorten") /\ ~MissingOrBlank(last.req.data) /\ ~Unreachable) =>
    last.resp.status = 201

\* every code the generator can produce is stored
Exhausted == \A code \in GeneratedCodes : RowsOf(code) # {}

\* C11 (as claimed): shorten caps its retries, so a call whose candidates all
\* collide, every code of the code space being stored, stops (with a capacity
\* error) instead of looping forever.
C11_RetriesCapped ==
  (Exhausted /\ \E p \in Procs : pc[p] = "sh_generate")
    ~> (\A p \in Procs : pc[p] # "sh_generate")

\* url is non-empty and has no whitespace at either end
Trimmed(url) ==
  /\ url # << >>
  /\ url[1] \notin Whitespace
  /\ url[Len(url)] \notin Whitespace

\* C12: every stored mapping's original URL is non-empty, has no leading or
\* trailing whitespace, and is the trimmed form of the URL given to the
\* shorten call that stored it.
C12_StoredUrlsTrimmed ==
  [][ /\ \A i \in 1..Len(table') : Trimmed(table'[i].original_url)
      /\ Len(table') > Len(table) =>
           /\ last'.req.route = "shorten"
           /\ \A i \in (Len(table) + 1)..Len(table') :
                IsTrimOf(last'.req.data.url, table'[i].original_url) ]_vars

\* a second mapping has been stored, from a URL sent with trailing whitespace
C12_Witness ==
  /\ Completed("shorten")
  /\ last.resp.status = 201
  /\ last.req.data.url = << "a", " " >>
  /\ Len(table) = 2
  /\ table[2].original_url = << "a" >>

\* the 62 characters a-z, A-Z, 0-9
Alphanumeric ==
  { "a","b","c","d","e","f","g","h","i","j","k","l","m",
    "n","o","p","q","r","s","t","u","v","w","x","y","z" }
  \cup { "A","B","C","D","E","F","G","H","I","J","K","L","M",
         "N","O","P","Q","R","S","T","U","V","W","X","Y","Z" }
  \cup { "0","1","2","3","4","5","6","7","8","9" }

\* code has length 6 and only alphanumeric characters
WellFormedCode(code) ==
  /\ Len(code) = 6
  /\ \A i \in 1..Len(code) : SubSeq(code, i, i) \in Alphanumeric

\* draws in which one position takes every index of the alphabet
ProbeDraws ==
  { [i \in 1..DefaultLength |-> IF i = k THEN n ELSE 1] :
      k \in 1..DefaultLength, n \in 1..AlphabetSize }

\* the generator's codes for the draws probed and the draws explored
ProbedCodes ==
  { generate_short_code(DefaultLength, d) : d \in ProbeDraws } \cup GeneratedCodes

\* the generator's codes are well formed
GeneratorWellFormed ==
  /\ Cardinality(Alphanumeric) = 62
  /\ \A code \in ProbedCodes : WellFormedCode(code)

\* C13: every code the generator produces with the default length, and so
\* every code a shorten call holds, stores or returns, has length exactly 6
\* and only characters of the 62-character alphabet a-z, A-Z, 0-9.
C13_CodesWellFormed ==
  /\ GeneratorWellFormed
  /\ \A i \in 1..Len(table) : WellFormedCode(table[i].short_code)
  /\ \A i \in 1..Len(returned) : WellFormedCode(returned[i].short_code)
  /\ \A p \in Procs : pc[p] # "idle" => WellFormedCode(short_code[p])

\* codes ending in an upper-case letter and in a digit are stored
C13_Witness ==
  /\ \E i \in 1..Len(table) : table[i].short_code = "aaaaaA"
  /\ \E i \in 1..Len(table) : table[i].short_code = "aaaaa0"

\* C14: health always returns a value and never raises: healthy exactly when
\* the connection and the probe query succeed, unhealthy when the store is
\* unreachable, and it leaves the stored mappings unchanged.
C14_HealthAlwaysAnswers ==
  [][ (last' # last /\ last'.req.route = "health") =>
        /\ last'.resp.fault = ""
        /\ \/ last'.resp.status = 200 /\ last'.resp.health = "healthy" /\ dbUp /\ dbUp'
           \/ last'.resp.status = 500 /\ last'.resp.health = "unhealthy" /\ ~dbUp'
        /\ UNCHANGED << tableExists, table, pending, txnStart, clock >> ]_vars

\* unhealthy reported while the store holds a mapping
C14_Witness ==
  /\ Completed("health")
  /\ last.resp.health = "unhealthy"
  /\ Len(table) >= 1

\* C15: init_db is idempotent: run on an absent store it yields the table, run
\* again it changes nothing, and in both cases the store holds exactly the
\* mappings it held before, with no two sharing a code.
C15_InitIdempotent ==
  [][ (last' # last /\ last'.req.route \in {"init_db", "init_db again"}) =>
        /\ tableExists'
        /\ table' = table
        /\ \A i, j \in 1..Len(table') : i # j => table'[i].short_code # table'[j].short_code
        /\ last'.req.route = "init_db" <=> ~tableExists
        /\ UNCHANGED << pending, txnStart, clock, dbUp, pc, connOpen, returned >> ]_vars

\* init_db has run again while a shorten call holds an uncommitted insert
C15_Witness ==
  /\ Completed("init_db again")
  /\ Len(table) >= 1
  /\ \E p \in Procs : pc[p] = "sh_commit"

\* the listing has exactly one element for row, with its code, URL and
\* creation time
ListedOnce(urls, row) ==
  Cardinality({ i \in 1..Len(urls) :
                  /\ urls[i].short_code = row.short_code
                  /\ urls[i].original_url = row.original_url
                  /\ urls[i].created_at = isoformat(row.created_at) }) = 1

\* C16: list, when the store answers, returns exactly the mappings committed
\* at the time of the query, each once with its code, original URL and
\* creation time, and leaves the store unchanged.
C16_ListExactlyCommitted ==
  [][ (last' # last /\ last'.req.route = "list" /\ ~Unreachable') =>
        /\ last'.resp.status = 200
        /\ Len(last'.resp.urls) = Len(table)
        /\ \A i \in 1..Len(table) : ListedOnce(last'.resp.urls, table[i])
        /\ \A a, b \in 0..(MaxClock + 2) : a # b => isoformat(a) # isoformat(b)
        /\ UNCHANGED << tableExists, table, pending, txnStart, clock, dbUp >> ]_vars

\* a mapping listed while another is inserted but not committed
C16_Witness ==
  /\ Completed("list")
  /\ Len(last.resp.urls) = 1
  /\ \E p \in Procs : pc[p] = "sh_commit"

\* request is one whose handler goes to the store
GoesToStore(request) ==
  \/ request.route \in {"redirect", "list"}
  \/ request.route = "shorten" /\ ~MissingOrBlank(request.data)

\* C17 (as claimed): when the store fails during shorten, resolve or list
\* (connection or query failure), the operation ends with a fault to the
\* caller, the handler runs no further statement, and the stored mappings are
\* unchanged.
C17_StoreFailureIsFault ==
  [][ (last' # last /\ GoesToStore(last'.req) /\ ~dbUp') =>
        /\ last'.resp.status = 500
        /\ last'.resp.fault = "OperationalError"
        /\ table' = table
        /\ \A p \in Procs : pc'[p] # "idle" => pc'[p] = pc[p]
        /\ \A p \in Procs : pc'[p] = "idle" => pending'[p] = << >> /\ txnStart'[p] = NoTxn ]_vars

\* C17 (amended): as claimed, except that when the operation that fails is the
\* commit of shorten, the mapping of that call may be stored.
C17_StoreFailureIsFaultUnlessCommit ==
  [][ (last' # last /\ GoesToStore(last'.req) /\ ~dbUp') =>
        /\ last'.resp.status = 500
        /\ last'.resp.fault = "OperationalError"
        /\ \/ table' = table
           \/ \E p \in Procs : /\ pc[p] = "sh_commit" /\ pc'[p] = "idle"
                                /\ table' = table \o pending[p]
        /\ \A p \in Procs : pc'[p] # "idle" => pc'[p] = pc[p]
        /\ \A p \in Procs : pc'[p] = "idle" => pending'[p] = << >> /\ txnStart'[p] = NoTxn ]_vars

\* a shorten call has ended with a fault over a store that holds a mapping
C17_Witness ==
  /\ Completed("shorten")
  /\ Unreachable
  /\ last.conn_open
  /\ Len(table) >= 1

\* C18 (as claimed): every connection a handler opens is closed by the time
\* the handler finishes, on every path.
C18_ConnectionsClosed == ~last.conn_open

\* C19: shorten does not deduplicate by URL: two successful calls with the
\* same URL have two different codes, each with its own stored mapping to that
\* URL, and a resolve of either code that the store answers yields the URL.
C19_NoDeduplication ==
  /\ \A i, j \in 1..Len(returned) :
       (i # j /\ returned[i].original_url = returned[j].original_url) =>
         /\ returned[i].short_code # returned[j].short_code
         /\ RowsOf(returned[i].short_code) # {}
         /\ RowsOf(returned[i].short_code) \cap RowsOf(returned[j].short_code) = {}
         /\ \A m \in RowsOf(returned[i].short_code) :
              table[m].original_url = returned[i].original_url
  /\ (Completed("redirect") /\ ~Unreachable) =>
       \A i, j \in 1..Len(returned) :
         (i # j /\ returned[i].original_url = returned[j].original_url
            /\ returned[i].short_code = last.req.short_code) =>
           last.resp.location = returned[j].original_url

\* the second of two codes returned for one URL resolves to it
C19_Witness ==
  /\ Completed("redirect")
  /\ last.resp.status = 302
  /\ Len(returned) >= 2
  /\ returned[1].original_url = returned[2].original_url
  /\ last.req.short_code = returned[2].short_code
====
